---- MODULE Spec2Model ----
(***************************************************************************)
(* Model of the PDF-to-Excel table detection engine                        *)
(* (js/utils/tableDetector.js) and of the Excel orchestration loop         *)
(* (convertToExcel in the conversion module).                              *)
(*                                                                         *)
(* Text is a sequence of one-character strings, so that join, trim and     *)
(* length are computed and not assumed.  Fractions (gridDensity,           *)
(* consistency, confidence) are records [num, den] compared by cross       *)
(* multiplication; a property that a JavaScript object does not have is a  *)
(* field missing from the record.                                          *)
(***************************************************************************)
EXTENDS Integers, Sequences, FiniteSets, Bags, TLC

VARIABLES
    pc,          \* the operation applied last / the position in convertToExcel
    xPositions,  \* argument of clusterXPositions
    textItems,   \* the TextFragments of a page, in extraction order
    rows,        \* result of groupByY / argument of the grid functions
    columns,     \* result of clusterXPositions / argument of the grid functions
    validation,  \* result of validateTableGrid
    cells,       \* result of reconstructCells
    tables,      \* result of detectTables for the page
    again,       \* result of a second run of groupByY
    mergedCells, \* result of detectMergedCells
    segmenterRan,  \* whether detectTables called detectMultipleTables for the page
    columnWidths,  \* result of calculateColumnWidths
    pdf,         \* the uploaded document: per page, the text layer's raw items
    options,     \* the two conversion checkboxes
    numPages, pageNum, allTables, totalPagesProcessed,  \* locals of convertToExcel
    thrown       \* the message of the Error convertToExcel threw, or "" for none

docVars == <<pdf, options, numPages, pageNum, allTables, totalPagesProcessed, thrown>>

vars == <<pc, xPositions, textItems, rows, columns, validation, cells,
          tables, again, mergedCells, segmenterRan, columnWidths, docVars>>

(***************************************************************************)
(* CONFIG.excel                                                            *)
(***************************************************************************)
rowThreshold == 5
columnThreshold == 10
minRows == 2
minCols == 2
maxSheetNameLength == 31
\* minGridDensity = 0.6 and minColumnConsistency = 0.7 as fractions
minGridDensity == [num |-> 6, den |-> 10]
minColumnConsistency == [num |-> 7, den |-> 10]
\* the width given to the last column by the membership tests
LastColumnExtent == 1000

(***************************************************************************)
(* Bounds of the model                                                     *)
(***************************************************************************)
\* clusterXPositions: length of the list of X positions
MaxXs == 4
\* extractXPositions: number of rows and fragments per row
MaxXRows == 2
MaxXRowLen == 2
\* groupByY: number of fragments
MaxFrags == 4
\* convertToExcel: pages of a document, and rows of a page laid out as a grid
MaxPages == 2
MaxPageRows == 4
\* validateTableGrid, reconstructCells: number of rows and fragments per row
MaxGridRows == 2
MaxGridRowLen == 2

(***************************************************************************)
(* JavaScript primitives                                                   *)
(***************************************************************************)
\* Math.round of the fraction n/d (d > 0): nearest integer, halves go up
\* the quotient n / d with its fraction dropped
MathFloor(n, d) == n \div d

MathRound(n, d) == (2 * n + d) \div (2 * d)

Abs(n) == IF n < 0 THEN -n ELSE n

RECURSIVE SumSeq(_)
SumSeq(s) == IF s = <<>> THEN 0 ELSE Head(s) + SumSeq(Tail(s))

\* insertion of a number into an ascending list, after its equals
RECURSIVE InsertAsc(_, _)
InsertAsc(e, s) ==
    IF s = <<>> THEN <<e>>
    ELSE IF Head(s) > e THEN <<e>> \o s
    ELSE <<Head(s)>> \o InsertAsc(e, Tail(s))

\* [...a].sort((a, b) => a - b)
RECURSIVE SortAsc(_)
SortAsc(s) ==
    IF s = <<>> THEN <<>>
    ELSE InsertAsc(s[Len(s)], SortAsc(SubSeq(s, 1, Len(s) - 1)))

\* Set.prototype.add on a Set kept in insertion order
SetAdd(s, e) == IF \E k \in 1..Len(s) : s[k] = e THEN s ELSE Append(s, e)

\* Array.prototype.join(' ') of a list of texts
RECURSIVE JoinSpace(_)
JoinSpace(texts) ==
    IF texts = <<>> THEN <<>>
    ELSE IF Len(texts) = 1 THEN texts[1]
    ELSE texts[1] \o <<" ">> \o JoinSpace(Tail(texts))

\* String.prototype.trim
RECURSIVE TrimLeft(_)
TrimLeft(t) == IF t # <<>> /\ Head(t) = " " THEN TrimLeft(Tail(t)) ELSE t

RECURSIVE TrimRight(_)
TrimRight(t) ==
    IF t # <<>> /\ t[Len(t)] = " " THEN TrimRight(SubSeq(t, 1, Len(t) - 1)) ELSE t

\* the white space removed at the start only
TrimStartOnly(t) == TrimLeft(t)

Trim(t) == TrimRight(TrimLeft(t))

\* a JavaScript number that is the quotient of two integers
Frac(n, d) == [num |-> n, den |-> d]
FracGeq(a, b) == a.num * b.den >= b.num * a.den
FracEq(a, b) == a.num * b.den = b.num * a.den

(***************************************************************************)
(* clusterXPositions                                                       *)
(***************************************************************************)
\* Math.round(avg of the cluster)
ClusterAverage(cluster) == MathRound(SumSeq(cluster), Len(cluster))

\* the loop with a value compared against the average of the open cluster
RECURSIVE ClusterLoopRunningAverage(_, _, _, _, _)
ClusterLoopRunningAverage(sorted, i, currentCluster, currentX, threshold) ==
    IF i > Len(sorted)
    THEN <<ClusterAverage(currentCluster)>>
    ELSE IF Abs(Len(currentCluster) * sorted[i] - SumSeq(currentCluster))
                <= threshold * Len(currentCluster)
         THEN ClusterLoopRunningAverage(sorted, i + 1, Append(currentCluster, sorted[i]),
                                        currentX, threshold)
         ELSE <<ClusterAverage(currentCluster)>> \o
              ClusterLoopRunningAverage(sorted, i + 1, <<sorted[i]>>, sorted[i], threshold)

\* the loop of clusterXPositions over sorted[i..], with the cluster that is
\* open and the X it is compared against
RECURSIVE ClusterLoop(_, _, _, _, _)
ClusterLoop(sorted, i, currentCluster, currentX, threshold) ==
    IF i > Len(sorted)
    THEN <<ClusterAverage(currentCluster)>>
    ELSE IF Abs(sorted[i] - currentX) <= threshold
         THEN ClusterLoop(sorted, i + 1, Append(currentCluster, sorted[i]),
                          currentX, threshold)
         ELSE <<ClusterAverage(currentCluster)>> \o
              ClusterLoop(sorted, i + 1, <<sorted[i]>>, sorted[i], threshold)

\* the input taken as it comes, without the sort
ClusterUnsortedInput(xs) == xs

\* const sorted = [...xPositions].sort((a, b) => a - b)
ClusterSortedInput(xs) == SortAsc(xs)

clusterXPositions(xs, threshold) ==
    IF Len(xs) = 0 THEN <<>>
    ELSE LET sorted == ClusterSortedInput(xs)
         IN  ClusterLoop(sorted, 2, <<sorted[1]>>, sorted[1], threshold)

(***************************************************************************)
(* groupByY                                                                *)
(***************************************************************************)
\* insertion of an item into a list sorted by descending y, after the items
\* that compare equal (Array.prototype.sort is stable)
RECURSIVE InsertByYDesc(_, _)
InsertByYDesc(e, s) ==
    IF s = <<>> THEN <<e>>
    ELSE IF Head(s).y < e.y THEN <<e>> \o s
    ELSE <<Head(s)>> \o InsertByYDesc(e, Tail(s))

\* the copy left in the order of extraction
KeptInExtractionOrder(s) == s

\* [...textItems].sort((a, b) => b.y - a.y)
RECURSIVE SortByYDesc(_)
SortByYDesc(s) ==
    IF s = <<>> THEN <<>>
    ELSE InsertByYDesc(s[Len(s)], SortByYDesc(SubSeq(s, 1, Len(s) - 1)))

\* the loop without the push of the row that is open when the list ends
RECURSIVE RowLoopNoLastPush(_, _, _, _, _)
RowLoopNoLastPush(sorted, i, currentRow, currentY, threshold) ==
    IF i > Len(sorted)
    THEN <<>>
    ELSE IF Abs(sorted[i].y - currentY) <= threshold
         THEN RowLoopNoLastPush(sorted, i + 1, Append(currentRow, sorted[i]),
                                currentY, threshold)
         ELSE <<currentRow>> \o
              RowLoopNoLastPush(sorted, i + 1, <<sorted[i]>>, sorted[i].y, threshold)

\* the loop with the anchor moved to each fragment that joins the row
RECURSIVE RowLoopChained(_, _, _, _, _)
RowLoopChained(sorted, i, currentRow, currentY, threshold) ==
    IF i > Len(sorted)
    THEN <<currentRow>>
    ELSE IF Abs(sorted[i].y - currentY) <= threshold
         THEN RowLoopChained(sorted, i + 1, Append(currentRow, sorted[i]),
                             sorted[i].y, threshold)
         ELSE <<currentRow>> \o
              RowLoopChained(sorted, i + 1, <<sorted[i]>>, sorted[i].y, threshold)

\* the loop of groupByY over sorted[i..]
RECURSIVE RowLoop(_, _, _, _, _)
RowLoop(sorted, i, currentRow, currentY, threshold) ==
    IF i > Len(sorted)
    THEN <<currentRow>>
    ELSE IF Abs(sorted[i].y - currentY) <= threshold
         THEN RowLoop(sorted, i + 1, Append(currentRow, sorted[i]),
                      currentY, threshold)
         ELSE <<currentRow>> \o
              RowLoop(sorted, i + 1, <<sorted[i]>>, sorted[i].y, threshold)

groupByY(items, threshold) ==
    IF Len(items) = 0 THEN <<>>
    ELSE LET sorted == SortByYDesc(items)
         IN  RowLoop(sorted, 2, <<sorted[1]>>, sorted[1].y, threshold)

\* the caller's list had the sort been applied to it and not to a copy
InputSortedInPlace(items) == SortByYDesc(items)

\* the caller's list after groupByY returned: the sort works on a copy
InputAfterGroupByY(items) == items

(***************************************************************************)
(* extractXPositions                                                       *)
(***************************************************************************)
RECURSIVE AddRowXs(_, _)
AddRowXs(set, row) ==
    IF row = <<>> THEN set
    ELSE AddRowXs(SetAdd(set, MathRound(Head(row).x, 1)), Tail(row))

RECURSIVE CollectXs(_, _)
CollectXs(set, rs) ==
    IF rs = <<>> THEN set
    ELSE CollectXs(AddRowXs(set, Head(rs)), Tail(rs))

extractXPositions(rs) == SortAsc(CollectXs(<<>>, rs))

(***************************************************************************)
(* calculateGridDensity, measureColumnConsistency, validateTableGrid       *)
(***************************************************************************)
ColEnd(cols, i) ==
    IF i < Len(cols) THEN cols[i + 1] ELSE cols[i] + LastColumnExtent

\* the test with the right edge of the column taken into the column
HasTextClosedEdge(row, cols, i) ==
    \E k \in 1..Len(row) : row[k].x >= cols[i] /\ row[k].x <= ColEnd(cols, i)

\* row.some(item => item.x >= colStart && item.x < colEnd)
HasText(row, cols, i) ==
    \E k \in 1..Len(row) : row[k].x >= cols[i] /\ row[k].x < ColEnd(cols, i)

\* the density with totalCells counted once per row, not once per cell
GridDensityPerRow(rs, cols) ==
    IF Len(rs) = 0 \/ Len(cols) = 0 THEN Frac(0, 1)
    ELSE LET totalCells == Len(rs)
             filledCells == Cardinality({c \in (1..Len(rs)) \X (1..Len(cols)) :
                                            HasText(rs[c[1]], cols, c[2])})
         IN  Frac(filledCells, totalCells)

calculateGridDensity(rs, cols) ==
    IF Len(rs) = 0 \/ Len(cols) = 0 THEN Frac(0, 1)
    ELSE LET totalCells == Len(rs) * Len(cols)
             filledCells == Cardinality({c \in (1..Len(rs)) \X (1..Len(cols)) :
                                            HasText(rs[c[1]], cols, c[2])})
         IN  Frac(filledCells, totalCells)

\* the test taken as "more than half of the rows"
ColumnHasMajority(rowsWithText, rowCount) == 2 * rowsWithText > rowCount

\* rowsWithText >= rows.length * 0.5
ColumnIsConsistent(rowsWithText, rowCount) == 2 * rowsWithText >= rowCount

measureColumnConsistency(rs, cols) ==
    IF Len(rs) = 0 \/ Len(cols) = 0 THEN Frac(0, 1)
    ELSE LET rowsWithText(i) ==
                 Cardinality({r \in 1..Len(rs) : HasText(rs[r], cols, i)})
             consistentColumns ==
                 Cardinality({i \in 1..Len(cols) :
                                 ColumnIsConsistent(rowsWithText(i), Len(rs))})
         IN  Frac(consistentColumns, Len(cols))

\* (gridDensity + consistency) / 2
Confidence(d, c) == Frac(d.num * c.den + c.num * d.den, 2 * d.den * c.den)

\* the thresholds taken as exclusive
ExceedsThresholds(d, c) ==
    ~FracGeq(minGridDensity, d) /\ ~FracGeq(minColumnConsistency, c)

\* gridDensity >= minGridDensity && consistency >= minColumnConsistency
MeetsThresholds(d, c) ==
    FracGeq(d, minGridDensity) /\ FracGeq(c, minColumnConsistency)

\* the minimum check with "and" for "or"
BelowBothMinimums(rs, cols) == Len(rs) < minRows /\ Len(cols) < minCols

\* rows.length < minRows || columns.length < minCols
BelowMinimum(rs, cols) == Len(rs) < minRows \/ Len(cols) < minCols

validateTableGrid(rs, cols) ==
    IF BelowMinimum(rs, cols)
    THEN [isValid |-> FALSE, confidence |-> Frac(0, 1),
          reason |-> "Need at least 2 rows and 2 columns"]
    ELSE LET gridDensity == calculateGridDensity(rs, cols)
             consistency == measureColumnConsistency(rs, cols)
             isValid == MeetsThresholds(gridDensity, consistency)
         IN  [isValid |-> isValid,
              confidence |-> Confidence(gridDensity, consistency),
              gridDensity |-> gridDensity,
              consistency |-> consistency,
              reason |-> IF isValid THEN "Valid table structure detected"
                         ELSE "Grid structure too irregular"]

(***************************************************************************)
(* detectTables, detectMultipleTables                                      *)
(***************************************************************************)
CandidateTable(rs, cols, v) ==
    [rows |-> rs, columns |-> cols, confidence |-> v.confidence,
     gridDensity |-> v.gridDensity, consistency |-> v.consistency]

\* currentTableRows left as it is after a table was pushed
AccumulatorKept(current) == current

\* currentTableRows after a table was pushed
AccumulatorAfterEmit(current) == <<>>

\* the loop emitting a table only once it has more than minRows rows
RECURSIVE SegmentLoopLongerRuns(_, _, _)
SegmentLoopLongerRuns(rs, i, currentTableRows) ==
    IF i > Len(rs) THEN <<>>
    ELSE LET current == Append(currentTableRows, rs[i])
             cols == clusterXPositions(extractXPositions(current), columnThreshold)
             v == validateTableGrid(current, cols)
         IN  IF v.isValid /\ Len(current) > minRows
             THEN <<CandidateTable(current, cols, v)>> \o
                  SegmentLoopLongerRuns(rs, i + 1, AccumulatorAfterEmit(current))
             ELSE SegmentLoopLongerRuns(rs, i + 1, current)

\* the loop emitting the rows that are still accumulated when the page ends
\* as a last table
RECURSIVE SegmentLoopFlushingLast(_, _, _)
SegmentLoopFlushingLast(rs, i, currentTableRows) ==
    IF i > Len(rs)
    THEN IF currentTableRows = <<>> THEN <<>>
         ELSE <<[rows |-> currentTableRows,
                 columns |-> clusterXPositions(extractXPositions(currentTableRows),
                                               columnThreshold),
                 confidence |-> Frac(0, 1), gridDensity |-> Frac(0, 1),
                 consistency |-> Frac(0, 1)]>>
    ELSE LET current == Append(currentTableRows, rs[i])
             cols == clusterXPositions(extractXPositions(current), columnThreshold)
             v == validateTableGrid(current, cols)
         IN  IF v.isValid /\ Len(current) >= minRows
             THEN <<CandidateTable(current, cols, v)>> \o
                  SegmentLoopFlushingLast(rs, i + 1, AccumulatorAfterEmit(current))
             ELSE SegmentLoopFlushingLast(rs, i + 1, current)

\* the loop of detectMultipleTables over rows[i..]
RECURSIVE SegmentLoop(_, _, _)
SegmentLoop(rs, i, currentTableRows) ==
    IF i > Len(rs) THEN <<>>
    ELSE LET current == Append(currentTableRows, rs[i])
             cols == clusterXPositions(extractXPositions(current), columnThreshold)
             v == validateTableGrid(current, cols)
         IN  IF v.isValid /\ Len(current) >= minRows
             THEN <<CandidateTable(current, cols, v)>> \o
                  SegmentLoop(rs, i + 1, AccumulatorAfterEmit(current))
             ELSE SegmentLoop(rs, i + 1, current)

detectMultipleTables(items, rs) == SegmentLoop(rs, 1, <<>>)

\* the segmenter taken to run for every page
SegmenterAlwaysRuns(v) == TRUE

\* detectMultipleTables is reached when the return for a valid whole-page
\* grid is not taken
SegmenterRuns(v) == ~v.isValid

\* what detectTables returns once the whole-page grid was validated
TablesOfGrid(items, rs, cols, v) ==
    IF SegmenterRuns(v)
    THEN detectMultipleTables(items, rs)
    ELSE <<CandidateTable(rs, cols, v)>>

detectTables(items) ==
    IF Len(items) = 0 THEN <<>>
    ELSE LET rs == groupByY(items, rowThreshold)
             cols == clusterXPositions(extractXPositions(rs), columnThreshold)
             v == validateTableGrid(rs, cols)
         IN  TablesOfGrid(items, rs, cols, v)

(***************************************************************************)
(* reconstructCells                                                        *)
(***************************************************************************)
\* row.filter(item => item.x >= colStart && item.x < colEnd)
RECURSIVE FilterColumn(_, _, _)
FilterColumn(row, cols, i) ==
    IF row = <<>> THEN <<>>
    ELSE IF Head(row).x >= cols[i] /\ Head(row).x < ColEnd(cols, i)
         THEN <<Head(row)>> \o FilterColumn(Tail(row), cols, i)
         ELSE FilterColumn(Tail(row), cols, i)

RECURSIVE InsertByXAsc(_, _)
InsertByXAsc(e, s) ==
    IF s = <<>> THEN <<e>>
    ELSE IF Head(s).x > e.x THEN <<e>> \o s
    ELSE <<Head(s)>> \o InsertByXAsc(e, Tail(s))

\* the cell items left in their order in the row
KeptInRowOrder(s) == s

\* cellItems.sort((a, b) => a.x - b.x)
RECURSIVE SortByXAsc(_)
SortByXAsc(s) ==
    IF s = <<>> THEN <<>>
    ELSE InsertByXAsc(s[Len(s)], SortByXAsc(SubSeq(s, 1, Len(s) - 1)))

TextsOf(items) == [k \in 1..Len(items) |-> items[k].text]

CellText(row, cols, i) ==
    Trim(JoinSpace(TextsOf(SortByXAsc(FilterColumn(row, cols, i)))))

\* a grid row that gets a cell only where a fragment falls in the column
TableRowSkippingEmpty(row, cols) ==
    SelectSeq([i \in 1..Len(cols) |-> CellText(row, cols, i)], LAMBDA t : t # <<>>)

\* one grid row: a cell per column index
TableRow(row, cols) == [i \in 1..Len(cols) |-> CellText(row, cols, i)]

reconstructCells(rs, cols) == [r \in 1..Len(rs) |-> TableRow(rs[r], cols)]

(***************************************************************************)
(* detectMergedCells                                                       *)
(*                                                                         *)
(* Rows and columns are counted from 0 in the hints, as in the code; the   *)
(* model's lists are indexed from 1, so column c of the code is cols[c+1]. *)
(***************************************************************************)
\* cellText.length * 7
TextWidth(cellText) == Len(cellText) * 7

\* textWidth > colWidth * CONFIG.excel.mergedCellThreshold (0.9)
WiderThanColumn(textWidth, colWidth) == 10 * textWidth > 9 * colWidth

\* textWidth <= totalWidth * 1.1
FitsTotalWidth(textWidth, totalWidth) == 10 * textWidth <= 11 * totalWidth

\* the while loop that calculates the span of the cell in column col
RECURSIVE SpanLoop(_, _, _, _, _)
SpanLoop(cols, col, span, totalWidth, textWidth) ==
    IF span < 5 /\ col + span < Len(cols) - 1
    THEN LET nextColWidth == cols[col + span + 2] - cols[col + span + 1]
         IN  IF FitsTotalWidth(textWidth, totalWidth + nextColWidth)
             THEN span
             ELSE SpanLoop(cols, col, span + 1, totalWidth + nextColWidth, textWidth)
    ELSE span

\* what the body of the two loops pushes for the cell at (row, col)
CellHints(table, cols, row, col) ==
    LET cellText == table[row + 1][col + 1]
    IN  IF cellText = <<>> \/ ~(col < Len(cols) - 1) THEN <<>>
        ELSE LET colWidth == cols[col + 2] - cols[col + 1]
                 span == SpanLoop(cols, col, 1, colWidth, TextWidth(cellText))
             IN  IF WiderThanColumn(TextWidth(cellText), colWidth) /\ span > 1
                 THEN <<[row |-> row, col |-> col, span |-> span]>>
                 ELSE <<>>

\* the two loops, from the cell at (row, col) on
RECURSIVE MergeLoop(_, _, _, _)
MergeLoop(table, cols, row, col) ==
    IF row >= Len(table) THEN <<>>
    ELSE IF col >= Len(table[row + 1]) THEN MergeLoop(table, cols, row + 1, 0)
    ELSE CellHints(table, cols, row, col) \o MergeLoop(table, cols, row, col + 1)

detectMergedCells(table, cols) == MergeLoop(table, cols, 0, 0)

\* the grid with the cells a hint covers emptied, as if the spans were applied
TableWithSpansApplied(table, cols) ==
    LET hints == detectMergedCells(table, cols)
        Covered(r, c) == \E k \in 1..Len(hints) :
                            /\ hints[k].row = r
                            /\ hints[k].col < c /\ c < hints[k].col + hints[k].span
    IN  [r \in 1..Len(table) |->
            [c \in 1..Len(table[r]) |->
                IF Covered(r - 1, c - 1) THEN <<>> ELSE table[r][c]]]

\* the caller's grid after detectMergedCells returned: it is only read
TableAfterDetectMergedCells(table, cols) == table

\* the caller's column boundaries after detectMergedCells returned
ColumnsAfterDetectMergedCells(table, cols) == cols

(***************************************************************************)
(* calculateColumnWidths                                                   *)
(***************************************************************************)
Max(a, b) == IF a > b THEN a ELSE b

Min(a, b) == IF a < b THEN a ELSE b

\* the width of a cell without the upper limit
WidthAtLeastTen(cellText) == Max(Len(cellText), 10)

\* Math.min(Math.max(cellText.length, 10), 50)
CellWidth(cellText) == Min(Max(Len(cellText), 10), 50)

\* row[col] || '', col counted from 1
CellOrEmpty(row, col) == IF col <= Len(row) THEN row[col] ELSE <<>>

\* the loop over the rows for one column, from table[r] on
RECURSIVE ColumnWidthLoop(_, _, _, _)
ColumnWidthLoop(table, col, r, maxWidth) ==
    IF r > Len(table) THEN maxWidth
    ELSE ColumnWidthLoop(table, col, r + 1,
                         Max(maxWidth, CellWidth(CellOrEmpty(table[r], col))))

\* Math.max(...table.map(row => row.length)), for a table with a row
RECURSIVE ColCount(_)
ColCount(table) ==
    IF Len(table) = 1 THEN Len(table[1])
    ELSE Max(Len(Head(table)), ColCount(Tail(table)))

calculateColumnWidths(table) ==
    IF Len(table) = 0 THEN <<>>
    ELSE [col \in 1..ColCount(table) |-> ColumnWidthLoop(table, col, 1, 10)]

(***************************************************************************)
(* extractTextItems                                                        *)
(*                                                                         *)
(* A raw item of the text layer is [str, tx, ty]: its string and the       *)
(* components 4 and 5 of its transform, counted in halves of a unit so     *)
(* that Math.round has something to round.                                 *)
(***************************************************************************)
RawItem(t, tx2, ty2) == [str |-> t, tx |-> tx2, ty |-> ty2]

Fragment(t, fx, fy) == [text |-> t, x |-> fx, y |-> fy]

RECURSIVE extractTextItems(_)
extractTextItems(items) ==
    IF items = <<>> THEN <<>>
    ELSE LET item == Head(items)
         IN  IF Trim(item.str) = <<>>
             THEN extractTextItems(Tail(items))
             ELSE <<Fragment(Trim(item.str), MathRound(item.tx, 2),
                             MathRound(item.ty, 2))>> \o
                  extractTextItems(Tail(items))

(***************************************************************************)
(* convertToExcel: the Excel orchestration                                 *)
(***************************************************************************)
Digit(n) == <<"0", "1", "2", "3", "4", "5", "6", "7", "8", "9">>[n + 1]

\* the decimal digits of n >= 0, as a template literal renders them
RECURSIVE NumberToString(_)
NumberToString(n) == IF n < 10 THEN <<Digit(n)>> ELSE NumberToString(n \div 10) \o <<Digit(n % 10)>>

\* String.prototype.substring(0, n)
Substring0(t, n) == SubSeq(t, 1, IF Len(t) < n THEN Len(t) ELSE n)

\* the name of a page's sheet taken from the running count of sheets
\* whatever the options say
PageSheetNameCounted(page, all, opts) ==
    <<"S", "h", "e", "e", "t", " ">> \o NumberToString(Len(all) + 1)

\* `Page ${pageNum}` or `Sheet ${allTables.length + 1}`
PageSheetName(page, all, opts) ==
    IF opts.includePageNumbers
    THEN <<"P", "a", "g", "e", " ">> \o NumberToString(page)
    ELSE <<"S", "h", "e", "e", "t", " ">> \o NumberToString(Len(all) + 1)

\* the composite label with the table counted from 0
TableSheetNameFromZero(page, tableIndex, all, opts) ==
    IF opts.includePageNumbers
    THEN <<"P">> \o NumberToString(page) \o <<"-", "T">> \o NumberToString(tableIndex)
    ELSE <<"T", "a", "b", "l", "e", " ">> \o NumberToString(Len(all) + 1)

\* `P${pageNum}-T${tableIndex + 1}` or `Table ${allTables.length + 1}`;
\* tableIndex is counted from 0
TableSheetName(page, tableIndex, all, opts) ==
    IF opts.includePageNumbers
    THEN <<"P">> \o NumberToString(page) \o <<"-", "T">> \o NumberToString(tableIndex + 1)
    ELSE <<"T", "a", "b", "l", "e", " ">> \o NumberToString(Len(all) + 1)

SheetName(page, tableIndex, tableCount, all, opts) ==
    Substring0(IF opts.detectMultipleTables /\ tableCount > 1
               THEN TableSheetName(page, tableIndex, all, opts)
               ELSE PageSheetName(page, all, opts),
               maxSheetNameLength)

\* the single cell of the fallback, joined from the items as they were extracted
FallbackTextInRowOrder(items) == JoinSpace(TextsOf(SortByYDesc(items)))

\* textItems.map(item => item.text).join(' ')
FallbackText(items) == JoinSpace(TextsOf(items))

FallbackSheet(items, page, all, opts) ==
    [data |-> <<<<FallbackText(items)>>>>,
     sheetName |-> PageSheetName(page, all, opts),
     page |-> page]

\* the emptiness test taken as "some cell is empty"
IsPartlyEmptyTable(grid) ==
    Len(grid) = 0 \/ \E r \in 1..Len(grid) : \E i \in 1..Len(grid[r]) : grid[r][i] = <<>>

\* cells.length === 0 || cells.every(row => row.every(cell => !cell))
IsEmptyTable(grid) ==
    Len(grid) = 0 \/ \A r \in 1..Len(grid) : \A i \in 1..Len(grid[r]) : grid[r][i] = <<>>

\* the loop over the detected tables of a page, from tables[k] on
RECURSIVE PushTables(_, _, _, _, _)
PushTables(all, tbls, k, page, opts) ==
    IF k > Len(tbls) THEN all
    ELSE LET table == tbls[k]
             grid == reconstructCells(table.rows, table.columns)
         IN  IF IsEmptyTable(grid)
             THEN PushTables(all, tbls, k + 1, page, opts)
             ELSE PushTables(
                      Append(all, [data |-> grid,
                                   sheetName |-> SheetName(page, k - 1, Len(tbls), all, opts),
                                   page |-> page,
                                   confidence |-> table.confidence,
                                   gridDensity |-> table.gridDensity,
                                   consistency |-> table.consistency]),
                      tbls, k + 1, page, opts)

\* the emptiness test taken on the count of pages that had a table
NoPageHadTables(all, processed) == processed = 0

\* allTables.length === 0
IsDocumentEmpty(all, processed) == Len(all) = 0

DocumentEmptyMessage == "No tables or text could be extracted from the PDF"

(***************************************************************************)
(* Input domains                                                           *)
(***************************************************************************)
SeqsUpTo(S, n) == UNION {[1..k -> S] : k \in 0..n}

\* X positions around the clustering threshold, with a negative one
XDomain == {-1, 0, 5, 10, 11, 21, 22}
XRowDomain == {0, 5, 11, 22}

\* values of the variables an operation does not touch
NoValidation == [isValid |-> FALSE]
NoOptions == [detectMultipleTables |-> TRUE, includePageNumbers |-> TRUE]
NoDocument ==
    /\ pdf = <<>> /\ options = NoOptions /\ numPages = 0 /\ pageNum = 0
    /\ allTables = <<>> /\ totalPagesProcessed = 0 /\ thrown = ""

(***************************************************************************)
(* Column Clusterer: clusterXPositions on a list of X positions, and       *)
(* extractXPositions followed by clusterXPositions on rows                 *)
(***************************************************************************)
\* X origins of three columns, two of them with two origins each
ThreeColumns == <<10, 12, 50, 53, 100>>

InitCols ==
    /\ pc = "cols"
    /\ \/ /\ xPositions \in SeqsUpTo(XDomain, MaxXs) \cup {ThreeColumns}
          /\ rows = <<>>
       \/ /\ xPositions = <<>>
          /\ rows \in SeqsUpTo(SeqsUpTo({Fragment(<<"a">>, fx, 0) : fx \in XRowDomain},
                                        MaxXRowLen), MaxXRows)
    /\ textItems = <<>> /\ columns = <<>> /\ validation = NoValidation
    /\ cells = <<>> /\ tables = <<>> /\ again = <<>> /\ mergedCells = <<>>
    /\ segmenterRan = FALSE /\ columnWidths = <<>>
    /\ NoDocument

ClusterCall ==
    /\ pc = "cols"
    /\ columns' = clusterXPositions(xPositions, columnThreshold)
    /\ pc' = "clustered"
    /\ UNCHANGED <<xPositions, textItems, rows, validation, cells, tables,
                   again, mergedCells, segmenterRan, columnWidths, docVars>>

ExtractClusterCall ==
    /\ pc = "cols"
    /\ xPositions' = extractXPositions(rows)
    /\ columns' = clusterXPositions(xPositions', columnThreshold)
    /\ pc' = "extracted"
    /\ UNCHANGED <<textItems, rows, validation, cells, tables, again, mergedCells, segmenterRan, columnWidths, docVars>>

NextCols == ClusterCall \/ ExtractClusterCall

SpecCols == InitCols /\ [][NextCols]_vars

StrictlyAscending(s) == \A i \in 1..(Len(s) - 1) : s[i] < s[i + 1]

\* C1: the output of the Column Clusterer (clusterXPositions, and
\* extractXPositions followed by clusterXPositions) is strictly ascending
\* and so holds no value twice
ColumnMonotonicity ==
    pc \in {"clustered", "extracted"} => StrictlyAscending(columns)

\* an unsorted list with a repeated value was clustered into two columns
ColumnMonotonicityWitness ==
    /\ pc = "clustered"
    /\ Len(columns) >= 2
    /\ ~StrictlyAscending(xPositions)
    /\ \E i, j \in 1..Len(xPositions) : i # j /\ xPositions[i] = xPositions[j]

(***************************************************************************)
(* Row Grouper: groupByY on a fragment list, run twice                     *)
(***************************************************************************)
\* Y values around the row threshold of an anchor at 100
YDomain == {100, 96, 95, 94, 50}
RowFragments ==
    {Fragment(<<"a">>, 0, fy) : fy \in YDomain} \cup
    {Fragment(<<"b">>, 50, fy) : fy \in YDomain}

\* three fragments within the threshold of the topmost of them and two
\* fragments on a line far below, in an order of extraction that is not the
\* reading order
TwoLines ==
    <<Fragment(<<"b">>, 50, 96), Fragment(<<"a">>, 0, 50), Fragment(<<"a">>, 0, 100),
      Fragment(<<"b">>, 50, 50), Fragment(<<"c">>, 100, 95)>>

InitRows ==
    /\ pc = "rows"
    /\ textItems \in SeqsUpTo(RowFragments, MaxFrags) \cup {TwoLines}
    /\ xPositions = <<>> /\ rows = <<>> /\ columns = <<>>
    /\ validation = NoValidation /\ cells = <<>> /\ tables = <<>> /\ again = <<>> /\ mergedCells = <<>>
    /\ segmenterRan = FALSE /\ columnWidths = <<>>
    /\ NoDocument

GroupCall ==
    /\ pc = "rows"
    /\ rows' = groupByY(textItems, rowThreshold)
    /\ textItems' = InputAfterGroupByY(textItems)
    /\ pc' = "grouped"
    /\ UNCHANGED <<xPositions, columns, validation, cells, tables, again, mergedCells, segmenterRan, columnWidths, docVars>>

GroupAgainCall ==
    /\ pc = "grouped"
    /\ again' = groupByY(textItems, rowThreshold)
    /\ textItems' = InputAfterGroupByY(textItems)
    /\ pc' = "regrouped"
    /\ UNCHANGED <<mergedCells, segmenterRan, columnWidths, xPositions, rows, columns, validation, cells, tables, docVars>>

NextRows == GroupCall \/ GroupAgainCall

SpecRows == InitRows /\ [][NextRows]_vars

RECURSIVE Flatten(_)
Flatten(ss) == IF ss = <<>> THEN <<>> ELSE Head(ss) \o Flatten(Tail(ss))

SeqRange(s) == {s[k] : k \in 1..Len(s)}

\* the multiset of the members of a list
BagOfSeq(s) == [e \in SeqRange(s) |-> Cardinality({k \in 1..Len(s) : s[k] = e})]

\* C8: the rows returned by groupByY partition the input: every input
\* fragment, counted with its multiplicity, is in exactly one row, no row is
\* empty, nothing is added and nothing is lost
RowsPartitionInput ==
    pc = "grouped" =>
        /\ BagOfSeq(Flatten(rows)) = BagOfSeq(textItems)
        /\ \A r \in 1..Len(rows) : rows[r] # <<>>

\* a list holding the same fragment twice was split into at least two rows
RowsPartitionInputWitness ==
    /\ pc = "grouped"
    /\ Len(rows) >= 2
    /\ \E i, j \in 1..Len(textItems) : i # j /\ textItems[i] = textItems[j]

AnchorToFirst ==
    pc = "grouped" =>
        /\ Flatten(rows) = SortByYDesc(textItems)
        /\ \A r \in 1..Len(rows) :
               /\ rows[r] # <<>>
               /\ \A k \in 1..Len(rows[r]) :
                      Abs(rows[r][k].y - rows[r][1].y) <= rowThreshold
        /\ \A r \in 1..(Len(rows) - 1) :
               Abs(rows[r + 1][1].y - rows[r][1].y) > rowThreshold
        /\ textItems = TwoLines =>
               /\ Len(rows) = 2
               /\ Len(rows[1]) = 3 /\ Len(rows[2]) = 2

\* the two lines were grouped: the first row holds the fragment at exactly
\* rowThreshold below its anchor
AnchorToFirstWitness ==
    /\ pc = "grouped"
    /\ textItems = TwoLines
    /\ Len(rows) = 2
    /\ rows[1][1].y = 100 /\ rows[1][3].y = 100 - rowThreshold

\* C17: the rows are in top-to-bottom order: every fragment of an earlier
\* row has a strictly greater Y than every fragment of a later row, the
\* anchors of consecutive rows differ by more than rowThreshold, and every
\* member of a row is within rowThreshold of the greatest Y of the row; an
\* empty list gives no row and a single fragment gives one row of it alone
RowsTopToBottom ==
    pc = "grouped" =>
        /\ \A r1, r2 \in 1..Len(rows) :
               r1 < r2 =>
                   \A k \in 1..Len(rows[r1]) : \A j \in 1..Len(rows[r2]) :
                       rows[r1][k].y > rows[r2][j].y
        /\ \A r \in 1..(Len(rows) - 1) :
               Abs(rows[r][1].y - rows[r + 1][1].y) > rowThreshold
        /\ \A r \in 1..Len(rows) :
               \A k, j \in 1..Len(rows[r]) :
                   (\A m \in 1..Len(rows[r]) : rows[r][m].y <= rows[r][j].y) =>
                       rows[r][j].y - rows[r][k].y <= rowThreshold
        /\ textItems = <<>> => rows = <<>>
        /\ Len(textItems) = 1 => rows = <<textItems>>

\* a list extracted bottom line first was grouped into three rows, one of
\* them of two fragments with different Y
RowsTopToBottomWitness ==
    /\ pc = "grouped"
    /\ Len(rows) = 3
    /\ textItems[1].y < textItems[Len(textItems)].y
    /\ \E r \in 1..3 : Len(rows[r]) = 2 /\ rows[r][1].y # rows[r][2].y

(***************************************************************************)
(* Grid Validator and Cell Reconstructor: validateTableGrid and            *)
(* reconstructCells on rows and column boundaries given by the caller      *)
(***************************************************************************)
GridFragments ==
    {Fragment(<<"a">>, 0, 0), Fragment(<<"b">>, 50, 0), Fragment(<<"c">>, 100, 0)}
GridRows == SeqsUpTo(GridFragments, MaxGridRowLen)
\* ascending column boundaries over the X positions of the fragments
GridColumns == {<<>>, <<0>>, <<50>>, <<100>>, <<0, 50>>, <<0, 100>>, <<50, 100>>,
                <<0, 50, 100>>}

\* a row with one fragment at each X of xs
RowAt(xs) == [k \in 1..Len(xs) |-> Fragment(<<"a">>, xs[k], 0)]

\* two grids on the acceptance thresholds: 2 rows by 5 columns with 6 of 10
\* cells filled, and 2 rows by 10 columns with 12 of 20 cells filled and 7 of
\* 10 columns populated
ThresholdGrids ==
    {[rows |-> <<RowAt(<<0, 10, 20, 30, 40>>), RowAt(<<0>>)>>,
      columns |-> <<0, 10, 20, 30, 40>>],
     [rows |-> <<RowAt(<<0, 10, 20, 30, 40, 50>>), RowAt(<<0, 10, 20, 30, 40, 60>>)>>,
      columns |-> <<0, 10, 20, 30, 40, 50, 60, 70, 80, 90>>]}

\* a grid of narrow columns with a cell of five characters, wide enough to
\* be taken for a cell merged over three columns, and a grid with fragments
\* at both sides of the right edge of the last column
WideGrids ==
    {[rows |-> <<RowAt(<<0, 1, 2, 10>>), RowAt(<<0, 10>>)>>,
      columns |-> <<0, 10, 20, 30, 40>>],
     [rows |-> <<RowAt(<<0, 1099>>), RowAt(<<0, 1100>>)>>,
      columns |-> <<0, 100>>]}

\* a grid whose first row is not in ascending X, has two fragments at the
\* same X, and has a fragment on the right edge of the last column
OrderGrids ==
    {[rows |-> <<<<Fragment(<<"b">>, 60, 0), Fragment(<<"c">>, 0, 0),
                   Fragment(<<"a">>, 0, 0), Fragment(<<"d">>, 50, 0),
                   Fragment(<<"e">>, 1050, 0)>>,
                 <<Fragment(<<"a">>, 0, 0)>>>>,
      columns |-> <<0, 50>>]}

InitGrid ==
    /\ pc = "grid"
    /\ \/ /\ rows \in SeqsUpTo(GridRows, MaxGridRows)
          /\ columns \in GridColumns
       \/ \E g \in ThresholdGrids \cup WideGrids \cup OrderGrids :
              rows = g.rows /\ columns = g.columns
    /\ xPositions = <<>> /\ textItems = <<>> /\ validation = NoValidation
    /\ cells = <<>> /\ tables = <<>> /\ again = <<>> /\ mergedCells = <<>>
    /\ segmenterRan = FALSE /\ columnWidths = <<>>
    /\ NoDocument

ValidateCall ==
    /\ pc = "grid"
    /\ validation' = validateTableGrid(rows, columns)
    /\ pc' = "validated"
    /\ UNCHANGED <<xPositions, textItems, rows, columns, cells, tables, again, mergedCells, segmenterRan, columnWidths, docVars>>

ReconstructCall ==
    /\ pc = "grid"
    /\ cells' = reconstructCells(rows, columns)
    /\ pc' = "reconstructed"
    /\ UNCHANGED <<xPositions, textItems, rows, columns, validation, tables, again, mergedCells, segmenterRan, columnWidths,
                   docVars>>

\* detectMergedCells on the grid reconstructCells returned
MergeCall ==
    /\ pc = "reconstructed"
    /\ mergedCells' = detectMergedCells(cells, columns)
    /\ cells' = TableAfterDetectMergedCells(cells, columns)
    /\ columns' = ColumnsAfterDetectMergedCells(cells, columns)
    /\ pc' = "merged"
    /\ UNCHANGED <<segmenterRan, columnWidths, xPositions, textItems, rows, validation, tables, again, docVars>>

NextGrid == ValidateCall \/ ReconstructCall \/ MergeCall

SpecGrid == InitGrid /\ [][NextGrid]_vars

RejectsBelowMinimum ==
    (pc = "validated" /\ (Len(rows) < 2 \/ Len(columns) < 2)) =>
        /\ ~validation.isValid
        /\ validation.confidence.num = 0

\* rejected for its single row, although both its columns are populated
RejectsBelowMinimumWitness ==
    /\ pc = "validated"
    /\ Len(rows) = 1 /\ Len(columns) = 2
    /\ \A i \in 1..2 : HasText(rows[1], columns, i)
    /\ ~validation.isValid

IsUnitFraction(f) == 0 <= f.num /\ f.num <= f.den /\ f.den > 0

ReportsMetrics(v) == {"gridDensity", "consistency"} \subseteq DOMAIN v

\* C6 as stated: every call of the validator, the immediate rejections
\* included, returns a gridDensity and a consistency in [0, 1]
DensityBoundEveryCall ==
    pc = "validated" =>
        /\ ReportsMetrics(validation)
        /\ IsUnitFraction(validation.gridDensity)
        /\ IsUnitFraction(validation.consistency)

\* C6 amended: a call with at least 2 rows and 2 columns returns a
\* gridDensity and a consistency in [0, 1]; an immediate rejection returns
\* neither of the two
DensityBound ==
    pc = "validated" =>
        IF Len(rows) >= 2 /\ Len(columns) >= 2
        THEN /\ ReportsMetrics(validation)
             /\ IsUnitFraction(validation.gridDensity)
             /\ IsUnitFraction(validation.consistency)
        ELSE DOMAIN validation \cap {"gridDensity", "consistency"} = {}

\* a grid with two fragments in one cell was validated
DensityBoundWitness ==
    /\ pc = "validated"
    /\ Len(rows) >= 2 /\ Len(columns) >= 2
    /\ \E r \in 1..Len(rows) : \E j, k \in 1..Len(rows[r]) :
           j # k /\ rows[r][j].x = rows[r][k].x
    /\ validation.gridDensity.num > 0

RowsPopulating(c) ==
    {r \in 1..Len(rows) :
        \E k \in 1..Len(rows[r]) :
            /\ columns[c] <= rows[r][k].x
            /\ rows[r][k].x < (IF c < Len(columns) THEN columns[c + 1]
                                ELSE columns[c] + 1000)}

MaxCellCols == 3
MaxCellRows == 2

\* a cell string of n characters
CellOfLength(n) == [k \in 1..n |-> "x"]

\* lengths of cell strings: empty; narrower than a column of 10; fitting
\* two and three columns of 10; fitting no five columns of 10
CellLengths == {0, 1, 3, 4, 11}

\* the further rows of a grid of n columns: all cells empty; all cells
\* longer than the greatest column hint; a first cell longer than the
\* greatest hint, a second between the least and the greatest, the others
\* empty
MoreRows(n) ==
    {[c \in 1..n |-> CellOfLength(l)] : l \in {0, 51}} \cup
    {[c \in 1..n |-> CellOfLength(IF c = 1 THEN 51 ELSE IF c = 2 THEN 11 ELSE 0)]}

\* column boundaries from 0 on, each column 10 or 30 wide
RECURSIVE ColumnLists(_)
ColumnLists(n) ==
    IF n = 1 THEN {<<0>>}
    ELSE {Append(c, c[Len(c)] + w) : c \in ColumnLists(n - 1), w \in {10, 30}}

\* grids of n columns: a first row of any cells, then rows of equal cells
CellGrids(n) ==
    {<<first>> \o more :
        first \in [1..n -> {CellOfLength(l) : l \in CellLengths}],
        more \in SeqsUpTo(MoreRows(n), MaxCellRows - 1)}

\* seven boundaries ten apart with a first cell that fits five columns, and
\* with a first cell that fits no five columns
SpanGrids ==
    {[cells |-> <<[c \in 1..7 |-> IF c = 1 THEN CellOfLength(l) ELSE <<>>]>>,
      columns |-> <<0, 10, 20, 30, 40, 50, 60>>] : l \in {7, 11}}

InitCells ==
    /\ pc = "table"
    /\ \/ \E n \in 1..MaxCellCols :
              cells \in CellGrids(n) /\ columns \in ColumnLists(n)
       \/ \E g \in SpanGrids : cells = g.cells /\ columns = g.columns
       \/ cells = <<>> /\ columns = <<>>
    /\ xPositions = <<>> /\ textItems = <<>> /\ rows = <<>>
    /\ validation = NoValidation /\ tables = <<>> /\ again = <<>>
    /\ mergedCells = <<>>
    /\ segmenterRan = FALSE /\ columnWidths = <<>>
    /\ NoDocument

\* detectMergedCells on the grid and its column boundaries
HintsCall ==
    /\ pc = "table"
    /\ mergedCells' = detectMergedCells(cells, columns)
    /\ cells' = TableAfterDetectMergedCells(cells, columns)
    /\ columns' = ColumnsAfterDetectMergedCells(cells, columns)
    /\ pc' = "hinted"
    /\ UNCHANGED <<xPositions, textItems, rows, validation, tables, again,
                   segmenterRan, columnWidths, docVars>>

\* calculateColumnWidths on the grid
WidthsCall ==
    /\ pc = "table"
    /\ columnWidths' = calculateColumnWidths(cells)
    /\ pc' = "measured"
    /\ UNCHANGED <<xPositions, textItems, rows, columns, validation, cells, tables,
                   again, mergedCells, segmenterRan, docVars>>

NextCells == HintsCall \/ WidthsCall

SpecCells == InitCells /\ [][NextCells]_vars

(***************************************************************************)
(* The Excel conversion of a document: convertToExcel, one action per      *)
(* iteration of its page loop (the handler awaits the text layer between   *)
(* pages) and one for what follows the loop                                *)
(***************************************************************************)
\* the fragments of one grid row, left to right
RowPatterns == {<<0>>, <<50>>, <<0, 50>>, <<50, 100>>, <<0, 50, 100>>, <<8, 50>>}

LayoutText(fx) ==
    IF fx = 0 THEN <<"a">> ELSE IF fx = 50 THEN <<"b">>
    ELSE IF fx = 100 THEN <<"c">> ELSE <<"d">>

\* the baseline of the r-th row from the top; rows are 20 units apart
LayoutY(r) == 200 - 20 * r

\* the raw items of a page laid out as rows of fragments, in reading order
RECURSIVE LayoutPage(_, _)
LayoutPage(layout, r) ==
    IF r > Len(layout) THEN <<>>
    ELSE [k \in 1..Len(layout[r]) |->
             RawItem(LayoutText(layout[r][k]), 2 * layout[r][k], 2 * LayoutY(r))]
         \o LayoutPage(layout, r + 1)

LayoutPages == {LayoutPage(l, 1) : l \in SeqsUpTo(RowPatterns, MaxPageRows)}

\* pages of the documents of several pages: no item; only blank items; one
\* word; two lines extracted bottom line first, with padding and
\* coordinates between pixels; a 2 x 2 table; a table followed by a line
\* that joins no table; two tables
DocPages ==
    {<<>>,
     <<RawItem(<<" ">>, 0, 200), RawItem(<<>>, 0, 100)>>,
     <<RawItem(<<"a">>, 0, 200)>>,
     <<RawItem(<<"b", " ", "c">>, 1, 161), RawItem(<<" ", "a", " ">>, 21, 199),
       RawItem(<<" ">>, 0, 0)>>,
     LayoutPage(<<<<0, 50>>, <<0, 50>>>>, 1),
     LayoutPage(<<<<0, 50>>, <<0, 50>>, <<100>>>>, 1),
     LayoutPage(<<<<0, 50>>, <<0>>, <<50, 100>>, <<50>>>>, 1)}

\* a page of three tables, each followed by a line that joins no table
ThreeTablesPage ==
    LayoutPage(<<<<0, 50>>, <<0>>, <<50, 100>>, <<50>>, <<0, 50>>, <<0>>>>, 1)

\* a document whose twelfth page is the first with text
TwelvePages == [p \in 1..12 |-> IF p = 12 THEN ThreeTablesPage ELSE <<>>]

Documents ==
    {<<p>> : p \in LayoutPages} \cup (SeqsUpTo(DocPages, MaxPages) \ {<<>>})
        \cup {TwelvePages}

Init ==
    /\ pc = "loop"
    /\ pdf \in Documents
    /\ numPages = Len(pdf)
    /\ options \in [detectMultipleTables : BOOLEAN, includePageNumbers : BOOLEAN]
    /\ pageNum = 1
    /\ allTables = <<>>
    /\ totalPagesProcessed = 0
    /\ thrown = ""
    /\ textItems = <<>> /\ tables = <<>>
    /\ xPositions = <<>> /\ rows = <<>> /\ columns = <<>>
    /\ validation = NoValidation /\ cells = <<>> /\ again = <<>> /\ mergedCells = <<>>
    /\ segmenterRan = FALSE /\ columnWidths = <<>>

\* an iteration for a page without text: continue; detectTables is not
\* called
SkipPage ==
    /\ pc = "loop" /\ pageNum <= numPages
    /\ \E items \in {extractTextItems(pdf[pageNum])} :
           /\ Len(items) = 0
           /\ textItems' = items
           /\ tables' = <<>>
    /\ rows' = <<>> /\ columns' = <<>> /\ validation' = NoValidation
    /\ segmenterRan' = FALSE
    /\ pageNum' = pageNum + 1
    /\ UNCHANGED <<pc, xPositions, cells, again, mergedCells, columnWidths, pdf,
                   options, numPages, allTables, totalPagesProcessed, thrown>>

\* the call of detectTables for the page, step by step: rows, columns and
\* validation of the whole page, whether the segmenter ran, and the tables
DetectTablesCall(items) ==
    \E rs \in {groupByY(items, rowThreshold)} :
    \E cols \in {clusterXPositions(extractXPositions(rs), columnThreshold)} :
    \E v \in {validateTableGrid(rs, cols)} :
        /\ rows' = rs /\ columns' = cols /\ validation' = v
        /\ segmenterRan' = SegmenterRuns(v)
        /\ tables' = TablesOfGrid(items, rs, cols, v)

\* an iteration for a page with text and no detected table: the fallback
FallbackPage ==
    /\ pc = "loop" /\ pageNum <= numPages
    /\ \E items \in {extractTextItems(pdf[pageNum])} :
           /\ Len(items) # 0
           /\ DetectTablesCall(items)
           /\ Len(tables') = 0
           /\ textItems' = items
           /\ allTables' = Append(allTables,
                                  FallbackSheet(items, pageNum, allTables, options))
    /\ pageNum' = pageNum + 1
    /\ UNCHANGED <<pc, xPositions, cells, again, mergedCells, columnWidths, pdf,
                   options, numPages, totalPagesProcessed, thrown>>

\* an iteration for a page with detected tables
TablesPage ==
    /\ pc = "loop" /\ pageNum <= numPages
    /\ \E items \in {extractTextItems(pdf[pageNum])} :
           /\ Len(items) # 0
           /\ DetectTablesCall(items)
           /\ Len(tables') # 0
           /\ textItems' = items
           /\ allTables' = PushTables(allTables, tables', 1, pageNum, options)
    /\ totalPagesProcessed' = totalPagesProcessed + 1
    /\ pageNum' = pageNum + 1
    /\ UNCHANGED <<pc, xPositions, cells, again, mergedCells, columnWidths, pdf,
                   options, numPages, thrown>>

\* after the loop, nothing collected: throw
ThrowDocumentEmpty ==
    /\ pc = "loop" /\ pageNum > numPages
    /\ IsDocumentEmpty(allTables, totalPagesProcessed)
    /\ thrown' = DocumentEmptyMessage
    /\ pc' = "failed"
    /\ UNCHANGED <<xPositions, textItems, rows, columns, validation, cells, tables,
                   again, mergedCells, segmenterRan, columnWidths, pdf, options, numPages, pageNum, allTables,
                   totalPagesProcessed>>

\* after the loop, sheets collected: the workbook is built and written
WriteWorkbook ==
    /\ pc = "loop" /\ pageNum > numPages
    /\ ~IsDocumentEmpty(allTables, totalPagesProcessed)
    /\ pc' = "done"
    /\ UNCHANGED <<xPositions, textItems, rows, columns, validation, cells, tables,
                   again, mergedCells, segmenterRan, columnWidths, docVars>>

Next == SkipPage \/ FallbackPage \/ TablesPage \/ ThrowDocumentEmpty \/ WriteWorkbook

Spec == Init /\ [][Next]_vars

\* the fragments of the rows of a list of tables
RECURSIVE TableFragments(_)
TableFragments(tbls) ==
    IF tbls = <<>> THEN <<>>
    ELSE Flatten(Head(tbls).rows) \o TableFragments(Tail(tbls))

\* cell is the texts, each once and in their order, with one space between
\* two of them
RECURSIVE IsSpaceJoinOf(_, _)
IsSpaceJoinOf(cell, texts) ==
    IF texts = <<>> THEN cell = <<>>
    ELSE IF Len(texts) = 1 THEN cell = texts[1]
    ELSE /\ Len(cell) >= Len(texts[1]) + 1
         /\ SubSeq(cell, 1, Len(texts[1])) = texts[1]
         /\ cell[Len(texts[1]) + 1] = " "
         /\ IsSpaceJoinOf(SubSeq(cell, Len(texts[1]) + 2, Len(cell)), Tail(texts))

SheetsOfPage(p) == SelectSeq(allTables, LAMBDA sheet : sheet.page = p)

\* C3: a page with at least one fragment and no detected table yields
\* exactly one sheet; its data is one row of one cell, and the cell is the
\* texts of the page's fragments, each once, in extraction order, with one
\* space between them
\* (textItems and tables are those of the page processed last, pageNum - 1)
FallbackKeepsAllText ==
    (pageNum > 1 /\ Len(textItems) >= 1 /\ Len(tables) = 0) =>
        LET sheets == SheetsOfPage(pageNum - 1)
        IN  /\ Len(sheets) = 1
            /\ allTables[Len(allTables)] = sheets[1]
            /\ Len(sheets[1].data) = 1
            /\ Len(sheets[1].data[1]) = 1
            /\ IsSpaceJoinOf(sheets[1].data[1][1],
                             [k \in 1..Len(textItems) |-> textItems[k].text])

\* the fallback was taken for a page whose fragments were extracted bottom
\* line first
FallbackKeepsAllTextWitness ==
    /\ pageNum > 1
    /\ Len(textItems) >= 2
    /\ textItems[1].y < textItems[2].y
    /\ tables = <<>>
    /\ Len(SheetsOfPage(pageNum - 1)) = 1

\* C4: among the tables detected for a page no row is in two tables: no row
\* of a table is a row of a later table, and no fragment of the page is in
\* the tables more often than on the page
SegmenterNonOverlap ==
    /\ \A i, j \in 1..Len(tables) :
           i < j => SeqRange(tables[i].rows) \cap SeqRange(tables[j].rows) = {}
    /\ BagOfSeq(TableFragments(tables)) \sqsubseteq BagOfSeq(textItems)

\* the segmenter emitted two tables for the page
SegmenterNonOverlapWitness ==
    /\ Len(tables) >= 2
    /\ Len(tables[1].rows) >= 2 /\ Len(tables[2].rows) >= 2

\* a raw item whose string has a character that is not white space
HasVisibleText(item) == \E k \in 1..Len(item.str) : item.str[k] # " "

PageHasText(page) == \E k \in 1..Len(page) : HasVisibleText(page[k])

\* C10: the conversion throws the DocumentEmpty error exactly when it ends
\* with no sheet collected, and it collects a sheet and does not throw when
\* some page has a fragment with non-whitespace text
DocumentEmptyRule ==
    /\ thrown \in {"", DocumentEmptyMessage}
    /\ thrown # "" <=> pc = "failed"
    /\ pc \in {"done", "failed"} =>
           /\ pc = "failed" <=> Len(allTables) = 0
           /\ (\E p \in 1..Len(pdf) : PageHasText(pdf[p])) =>
                  (Len(allTables) >= 1 /\ thrown = "")
    /\ \A p \in 1..(pageNum - 1) : PageHasText(pdf[p]) => Len(SheetsOfPage(p)) >= 1

\* a document of a page without text and a page with text and no table was
\* converted without the error
DocumentEmptyRuleWitness ==
    /\ pc = "done"
    /\ Len(pdf) = 2
    /\ ~PageHasText(pdf[1]) /\ PageHasText(pdf[2])
    /\ \A k \in 1..Len(allTables) : "confidence" \notin DOMAIN allTables[k]

\* a document without any text ended in the error
DocumentEmptyThrown ==
    /\ pc = "failed"
    /\ Len(pdf) = 2
    /\ thrown = DocumentEmptyMessage

\* C11: the page processed last (pageNum - 1) has no sheet if it has no
\* fragment, exactly one sheet, the fallback of one cell, if it has fragments
\* and no detected table, and otherwise one sheet per detected table, in the
\* order of detection: sheet k holds the cells and the confidence of table
\* k; the sheets of the page are the last ones collected
SheetsPerPage ==
    pageNum > 1 =>
        LET sheets == SheetsOfPage(pageNum - 1)
        IN  /\ Len(textItems) = 0 => Len(sheets) = 0
            /\ (Len(textItems) >= 1 /\ Len(tables) = 0) =>
                   /\ Len(sheets) = 1
                   /\ Len(sheets[1].data) = 1 /\ Len(sheets[1].data[1]) = 1
                   /\ "confidence" \notin DOMAIN sheets[1]
            /\ Len(tables) >= 1 =>
                   /\ Len(sheets) = Len(tables)
                   /\ \A k \in 1..Len(tables) :
                          /\ sheets[k].data =
                                 reconstructCells(tables[k].rows, tables[k].columns)
                          /\ sheets[k].confidence = tables[k].confidence
            /\ Len(sheets) <= Len(allTables)
            /\ sheets = SubSeq(allTables, Len(allTables) - Len(sheets) + 1,
                               Len(allTables))

\* the second page of a document had two tables with different cells, and
\* two sheets were collected for it
SheetsPerPageWitness ==
    /\ pageNum = 3
    /\ Len(tables) = 2
    /\ Len(SheetsOfPage(2)) = 2
    /\ SheetsOfPage(2)[1].data # SheetsOfPage(2)[2].data
    /\ Len(SheetsOfPage(1)) = 1

\* the text of a sheet name
PageLabel(page) == <<"P", "a", "g", "e", " ">> \o NumberToString(page)

CompositeLabel(page, k) ==
    <<"P">> \o NumberToString(page) \o <<"-", "T">> \o NumberToString(k)

\* C12: with includePageNumbers = true the name of sheet k of the page
\* processed last is the first 31 characters of "P<page>-T<k>" when
\* detectMultipleTables is true and the page has more than one detected
\* table, and of "Page <page>" otherwise; table 2 of 3 of page 12 is named
\* "P12-T2"; no collected sheet has a name longer than 31 characters
SheetNameRule ==
    /\ (pageNum > 1 /\ options.includePageNumbers) =>
           LET page == pageNum - 1
               sheets == SheetsOfPage(page)
           IN  /\ \A k \in 1..Len(sheets) :
                      sheets[k].sheetName =
                          Substring0(IF options.detectMultipleTables /\ Len(tables) > 1
                                     THEN CompositeLabel(page, k)
                                     ELSE PageLabel(page), 31)
               /\ (page = 12 /\ options.detectMultipleTables /\ Len(tables) = 3) =>
                      sheets[2].sheetName = <<"P", "1", "2", "-", "T", "2">>
    /\ \A k \in 1..Len(allTables) : Len(allTables[k].sheetName) <= 31

\* page 12 was processed with both options set and had three tables
SheetNameRuleWitness ==
    /\ pageNum = 13
    /\ options.includePageNumbers /\ options.detectMultipleTables
    /\ Len(tables) = 3
    /\ Len(SheetsOfPage(12)) = 3

\* the clusters of a sorted list as lists of their members: a value joins
\* the open cluster when it is within the threshold of the cluster's first
\* member
RECURSIVE AnchorRunsLoop(_, _, _, _)
AnchorRunsLoop(sorted, i, current, threshold) ==
    IF i > Len(sorted) THEN <<current>>
    ELSE IF Abs(sorted[i] - current[1]) <= threshold
         THEN AnchorRunsLoop(sorted, i + 1, Append(current, sorted[i]), threshold)
         ELSE <<current>> \o AnchorRunsLoop(sorted, i + 1, <<sorted[i]>>, threshold)

AnchorRuns(sorted, threshold) ==
    IF sorted = <<>> THEN <<>> ELSE AnchorRunsLoop(sorted, 2, <<sorted[1]>>, threshold)

\* the rows form a perfect grid over the clusters: at least 2 rows and 2
\* clusters, and every row has exactly one fragment in each cluster
IsPerfectGrid(rs, clusters) ==
    /\ Len(rs) >= 2 /\ Len(clusters) >= 2
    /\ \A r \in 1..Len(rs) :
           /\ Len(rs[r]) = Len(clusters)
           /\ \A c \in 1..Len(clusters) :
                  \E k \in 1..Len(rs[r]) : rs[r][k].x \in SeqRange(clusters[c])

\* C14: when the page processed last is a perfect grid of R >= 2 rows and
\* C >= 2 columns (every row has a fragment in each column cluster),
\* detectTables returns exactly one table, it holds all R rows, and its
\* gridDensity and consistency are 1
PerfectGridAccepted ==
    pageNum > 1 =>
        LET rs == groupByY(textItems, rowThreshold)
            clusters == AnchorRuns(SortAsc(extractXPositions(rs)), columnThreshold)
        IN  IsPerfectGrid(rs, clusters) =>
                /\ Len(tables) = 1
                /\ tables[1].rows = rs
                /\ FracEq(tables[1].gridDensity, Frac(1, 1))
                /\ FracEq(tables[1].consistency, Frac(1, 1))

\* the sheets the page loop collects for a page when no sheet was collected
\* before it
IsolatedSheets(items, tbls, page, opts) ==
    IF Len(items) = 0 THEN <<>>
    ELSE IF Len(tbls) = 0 THEN <<FallbackSheet(items, page, <<>>, opts)>>
    ELSE PushTables(<<>>, tbls, 1, page, opts)

\* the sheet without its name
SheetContent(sheet) == [f \in DOMAIN sheet \ {"sheetName"} |-> sheet[f]]

\* the sheets of the page processed last, data and sheetName, are those the
\* page gives when it is processed alone, for every setting of the options
PagesIndependent ==
    pageNum > 1 =>
        SheetsOfPage(pageNum - 1) =
            IsolatedSheets(textItems, tables, pageNum - 1, options)

\* C15: the data of the sheets of the page processed last is what the page
\* gives when it is processed alone, for every setting of the options, and
\* so is the sheetName when includePageNumbers = true; with
\* includePageNumbers = false the sheetName is "Sheet <n>" or "Table <n>"
\* with n the position of the sheet among all the sheets collected so far
PageIndependence ==
    pageNum > 1 =>
        LET sheets == SheetsOfPage(pageNum - 1)
            alone == IsolatedSheets(textItems, tables, pageNum - 1, options)
            before == Len(allTables) - Len(sheets)
        IN  /\ Len(sheets) = Len(alone)
            /\ \A k \in 1..Len(sheets) :
                   /\ SheetContent(sheets[k]) = SheetContent(alone[k])
                   /\ options.includePageNumbers =>
                          sheets[k].sheetName = alone[k].sheetName
                   /\ ~options.includePageNumbers =>
                          sheets[k].sheetName \in
                              {<<"S", "h", "e", "e", "t", " ">> \o NumberToString(before + k),
                               <<"T", "a", "b", "l", "e", " ">> \o NumberToString(before + k)}

\* the second page of a document gave two sheets after the first page had
\* given one, without page numbers in the names
PageIndependenceWitness ==
    /\ pageNum = 3
    /\ ~options.includePageNumbers
    /\ Len(SheetsOfPage(1)) = 1
    /\ Len(SheetsOfPage(2)) = 2
    /\ allTables[3].sheetName = <<"T", "a", "b", "l", "e", " ", "3">>

\* the clusters of a sorted list when a value joins the open cluster iff it
\* is within the threshold of the average of the members already in it
RECURSIVE AverageRunsLoop(_, _, _, _)
AverageRunsLoop(sorted, i, current, threshold) ==
    IF i > Len(sorted) THEN <<current>>
    ELSE IF Abs(Len(current) * sorted[i] - SumSeq(current)) <= threshold * Len(current)
         THEN AverageRunsLoop(sorted, i + 1, Append(current, sorted[i]), threshold)
         ELSE <<current>> \o AverageRunsLoop(sorted, i + 1, <<sorted[i]>>, threshold)

AverageRuns(sorted, threshold) ==
    IF sorted = <<>> THEN <<>> ELSE AverageRunsLoop(sorted, 2, <<sorted[1]>>, threshold)

\* the boundaries are the rounded means of the clusters
BoundariesOf(runs) == [c \in 1..Len(runs) |-> ClusterAverage(runs[c])]

RoundedMeanBoundaries ==
    pc \in {"clustered", "extracted"} =>
        LET runs == AnchorRuns(SortAsc(xPositions), columnThreshold)
        IN  /\ Len(columns) = Len(runs)
            /\ \A c \in 1..Len(runs) :
                   LET n == Len(runs[c])
                       sum == SumSeq(runs[c])
                   IN  /\ 2 * n * columns[c] - n <= 2 * sum
                       /\ 2 * sum < 2 * n * columns[c] + n
                       /\ runs[c][1] <= columns[c] /\ columns[c] <= runs[c][n]
            /\ xPositions = ThreeColumns => columns = <<11, 52, 100>>
            /\ xPositions = <<>> => columns = <<>>

\* the three columns were clustered, the mean 51.5 rounded up to 52
RoundedMeanBoundariesWitness ==
    /\ pc = "clustered"
    /\ xPositions = ThreeColumns
    /\ columns = <<11, 52, 100>>

\* the number of cells of a grid that are not the empty string
FilledCells(grid) ==
    Cardinality({c \in (1..Len(grid)) \X (1..Len(grid[1])) : grid[c[1]][c[2]] # <<>>})

\* C21: for every table detectTables returned for the page processed last,
\* the reported gridDensity is the number of non-empty cells of
\* reconstructCells(rows, columns) divided by rows.length * columns.length;
\* the grid has a non-empty cell, so the table is not skipped as empty and
\* the page has as many sheets as tables
DensityCountsCells ==
    pageNum > 1 =>
        /\ \A k \in 1..Len(tables) :
               LET grid == reconstructCells(tables[k].rows, tables[k].columns)
               IN  /\ tables[k].gridDensity.num
                          * (Len(tables[k].rows) * Len(tables[k].columns)) =
                      FilledCells(grid) * tables[k].gridDensity.den
                   /\ FilledCells(grid) >= 1
                   /\ ~IsEmptyTable(grid)
        /\ Len(tables) >= 1 => Len(SheetsOfPage(pageNum - 1)) = Len(tables)

\* a table with an empty cell was detected and its sheet collected: three of
\* its four cells hold text, and its gridDensity is 3/4
DensityCountsCellsWitness ==
    /\ pageNum > 1
    /\ Len(tables) = 1
    /\ Len(tables[1].rows) = 2 /\ Len(tables[1].columns) = 2
    /\ FracEq(tables[1].gridDensity, Frac(3, 4))
    /\ FilledCells(allTables[Len(allTables)].data) = 3

\* C22: when the whole-page grid passes validation detectTables returns
\* exactly one table, of all the rows of the page with the whole-page
\* columns, confidence, gridDensity and consistency, and the segmenter does
\* not run; the segmenter runs only for a page whose whole-page grid was
\* rejected
SegmenterOnlyOnRejection ==
    (pageNum > 1 /\ Len(textItems) >= 1) =>
        /\ rows = groupByY(textItems, rowThreshold)
        /\ columns = clusterXPositions(extractXPositions(rows), columnThreshold)
        /\ validation = validateTableGrid(rows, columns)
        /\ validation.isValid =>
               /\ ~segmenterRan
               /\ tables = <<[rows |-> rows, columns |-> columns,
                              confidence |-> validation.confidence,
                              gridDensity |-> validation.gridDensity,
                              consistency |-> validation.consistency]>>
        /\ segmenterRan => ~validation.isValid

\* a page of four rows whose whole-page grid is valid gave one table of the
\* four rows, though its first two rows alone form a valid grid as well
SegmenterOnlyOnRejectionWitness ==
    /\ pageNum > 1
    /\ Len(rows) = 4
    /\ validation.isValid /\ ~segmenterRan
    /\ Len(tables) = 1 /\ Len(tables[1].rows) = 4
    /\ validateTableGrid(SubSeq(rows, 1, 2),
                         clusterXPositions(extractXPositions(SubSeq(rows, 1, 2)),
                                           columnThreshold)).isValid

\* the number of page rows in the tables before table k
RECURSIVE RowsBefore(_)
RowsBefore(k) == IF k <= 1 THEN 0 ELSE RowsBefore(k - 1) + Len(tables[k - 1].rows)

\* the columns clustered from the rows rs alone, and their validation
OwnColumns(rs) == clusterXPositions(extractXPositions(rs), columnThreshold)

OwnValidation(rs) == validateTableGrid(rs, OwnColumns(rs))

\* C23: every table the segmenter emitted for the page processed last is a
\* run of consecutive page rows that starts right after the run of the table
\* before it (the first at the first row of the page); its columns are
\* clustered from its own rows; it has at least minRows rows and minCols
\* columns; its gridDensity >= 0.6 and consistency >= 0.7 are those of its
\* own rows; and no proper prefix of the run validates
SegmenterShortestRuns ==
    (pageNum > 1 /\ segmenterRan) =>
        \A k \in 1..Len(tables) :
            LET run == tables[k].rows
                n == Len(run)
                v == OwnValidation(run)
            IN  /\ RowsBefore(k) + n <= Len(rows)
                /\ run = SubSeq(rows, RowsBefore(k) + 1, RowsBefore(k) + n)
                /\ tables[k].columns = OwnColumns(run)
                /\ n >= minRows /\ Len(tables[k].columns) >= minCols
                /\ v.isValid
                /\ tables[k].gridDensity = v.gridDensity
                /\ tables[k].consistency = v.consistency
                /\ 10 * tables[k].gridDensity.num >= 6 * tables[k].gridDensity.den
                /\ 10 * tables[k].consistency.num >= 7 * tables[k].consistency.den
                /\ \A m \in 1..(n - 1) : ~OwnValidation(SubSeq(run, 1, m)).isValid

\* the segmenter emitted two tables of two rows, each with columns of its
\* own that are not the columns of the whole page
SegmenterShortestRunsWitness ==
    /\ pageNum > 1 /\ segmenterRan
    /\ Len(tables) = 2
    /\ tables[1].columns # tables[2].columns
    /\ columns \notin {tables[1].columns, tables[2].columns}
    /\ tables[2].rows = SubSeq(rows, 3, 4)

\* the text t occurs in the cell
Contains(cell, t) ==
    \E i \in 1..(Len(cell) - Len(t) + 1) : SubSeq(cell, i, i + Len(t) - 1) = t

\* the text t occurs in a cell of a sheet
InSheet(sheet, t) ==
    \E r \in 1..Len(sheet.data) : \E c \in 1..Len(sheet.data[r]) :
        Contains(sheet.data[r][c], t)

\* a page of a table of two rows followed by a line that joins no table
TableThenLine == LayoutPage(<<<<0, 50>>, <<0, 50>>, <<100>>>>, 1)

\* C24: when the segmenter emitted a table for the page processed last, the
\* page rows after the emitted runs are in no table, the page has one sheet
\* per table and no fallback sheet, and a text that only fragments of those
\* rows have is in no sheet of the page; the page of a table followed by a
\* line gives one table, and the text of the line is in no sheet
LeftoverRowsDropped ==
    (pageNum > 1 /\ segmenterRan /\ Len(tables) >= 1) =>
        LET covered == RowsBefore(Len(tables) + 1)
            inTables == Flatten(SubSeq(rows, 1, covered))
            leftover == Flatten(SubSeq(rows, covered + 1, Len(rows)))
            sheets == SheetsOfPage(pageNum - 1)
        IN  /\ covered <= Len(rows)
            /\ TableFragments(tables) = inTables
            /\ Len(sheets) = Len(tables)
            /\ \A k \in 1..Len(sheets) :
                   /\ "confidence" \in DOMAIN sheets[k]
                   /\ sheets[k].data =
                          reconstructCells(tables[k].rows, tables[k].columns)
                   /\ \A f \in 1..Len(leftover) :
                          (\A g \in 1..Len(inTables) :
                               inTables[g].text # leftover[f].text)
                              => ~InSheet(sheets[k], leftover[f].text)
            /\ pdf[pageNum - 1] = TableThenLine =>
                   /\ Len(tables) = 1 /\ covered = 2
                   /\ ~InSheet(sheets[1], <<"c">>)

\* the page of a table followed by a line was processed: the line's row is
\* left over, and the only sheet of the page holds the table
LeftoverRowsDroppedWitness ==
    /\ pageNum > 1 /\ segmenterRan
    /\ pdf[pageNum - 1] = TableThenLine
    /\ Len(tables) = 1 /\ Len(rows) = 3
    /\ rows[3][1].text = <<"c">>
    /\ Len(SheetsOfPage(pageNum - 1)) = 1

\* the fragments of a list in ascending X, those with equal X in their
\* order in the list
RECURSIVE StableByX(_)
StableByX(s) ==
    IF s = <<>> THEN <<>>
    ELSE LET least == CHOOSE v \in {s[k].x : k \in 1..Len(s)} :
                         \A k \in 1..Len(s) : v <= s[k].x
         IN  SelectSeq(s, LAMBDA f : f.x = least) \o
             StableByX(SelectSeq(s, LAMBDA f : f.x # least))

\* the fragments of row r with colStart(i) <= x < colEnd(i), in row order
FragmentsInColumn(r, i) ==
    SelectSeq(rows[r],
              LAMBDA f : /\ columns[i] <= f.x
                         /\ f.x < (IF i < Len(columns) THEN columns[i + 1]
                                    ELSE columns[i] + 1000))

WidthOfColumn(col) == columns[col + 2] - columns[col + 1]

\* the total width of the column col and the next k columns
RECURSIVE TotalWidth(_, _)
TotalWidth(col, k) ==
    IF k = 0 THEN WidthOfColumn(col)
    ELSE TotalWidth(col, k - 1) + WidthOfColumn(col + k)

\* the numbers k of 1..4 of further columns with which the estimated width
\* is at most 1.1 times the total width
FittingSpans(col, estimatedWidth) ==
    {k \in 1..4 : /\ col + k < Len(columns) - 1
                  /\ 10 * estimatedWidth <= 11 * TotalWidth(col, k)}

LeastOf(S) == CHOOSE k \in S : \A j \in S : k <= j

\* the hints emitted for the cell at (row, col), both counted from 0
HintsAt(row, col) ==
    {h \in 1..Len(mergedCells) : mergedCells[h].row = row /\ mergedCells[h].col = col}

\* C26: a hint {row, col, span} is emitted for a cell if and only if the
\* cell is not empty, is not in the last column, its estimated width 7 x
\* length is more than 0.9 x the column width, and for some k in 1..4 the
\* estimated width is at most 1.1 x the total width of the column and the
\* next k columns; the span is 1 + the least such k and at most 5
MergeSpanRule ==
    pc = "hinted" =>
        \A r \in 1..Len(cells) : \A c \in 1..Len(cells[r]) :
            LET estimatedWidth == 7 * Len(cells[r][c])
                fitting == FittingSpans(c - 1, estimatedWidth)
                expected == /\ cells[r][c] # <<>>
                            /\ c < Len(columns)
                            /\ 10 * estimatedWidth > 9 * WidthOfColumn(c - 1)
                            /\ fitting # {}
            IN  /\ HintsAt(r - 1, c - 1) # {} <=> expected
                /\ Cardinality(HintsAt(r - 1, c - 1)) <= 1
                /\ \A h \in HintsAt(r - 1, c - 1) :
                       /\ mergedCells[h].span = 1 + LeastOf(fitting)
                       /\ mergedCells[h].span <= 5

\* C28: calculateColumnWidths returns one width per column of the grid,
\* each the length of the longest cell string of the column, raised to 10
\* when it is less and lowered to 50 when it is more; a grid of no rows
\* gives no width
WidthsClamped ==
    pc = "measured" =>
        /\ cells = <<>> => columnWidths = <<>>
        /\ cells # <<>> =>
               /\ Len(columnWidths) = Len(cells[1])
               /\ \A c \in 1..Len(columnWidths) :
                      LET longest == LeastOf({n \in {Len(cells[r][c]) : r \in 1..Len(cells)} :
                                                \A r \in 1..Len(cells) : Len(cells[r][c]) <= n})
                      IN  /\ columnWidths[c] =
                                 (IF longest < 10 THEN 10
                                  ELSE IF longest > 50 THEN 50 ELSE longest)
                          /\ 10 <= columnWidths[c] /\ columnWidths[c] <= 50

\* a grid of two rows with columns whose longest cells have 51, 11 and 4
\* characters got the widths 50, 11 and 10
WidthsClampedWitness ==
    /\ pc = "measured"
    /\ Len(cells) = 2 /\ Len(cells[1]) = 3
    /\ Len(cells[2][1]) = 51 /\ Len(cells[2][2]) = 11
    /\ Len(cells[1][2]) = 3
    /\ Len(cells[1][3]) = 4 /\ Len(cells[2][3]) = 0
    /\ columnWidths = <<50, 11, 10>>

\* t is str without the spaces at its two ends, and is not empty
IsTrimOf(t, str) ==
    /\ t # <<>>
    /\ t[1] # " " /\ t[Len(t)] # " "
    /\ \E lead \in 0..(Len(str) - Len(t)) :
           /\ SubSeq(str, lead + 1, lead + Len(t)) = t
           /\ \A k \in 1..Len(str) :
                  (k <= lead \/ k > lead + Len(t)) => str[k] = " "

\* n is the nearest integer to half2 / 2, a half rounded up (the raw
\* coordinates are counted in halves)
IsRoundedHalves(n, half2) == 2 * n - 1 <= half2 /\ half2 < 2 * n + 1

\* C27: the fragments extracted from the page processed last are, in source
\* order, one per raw item whose text is not only white space, with the
\* text trimmed and x, y the rounded components 4 and 5 of the transform;
\* no fragment with an empty text is in a row of the Row Grouper; a page
\* without items gives no fragment
ExtractorKeepsVisibleItems ==
    pageNum > 1 =>
        LET visible == SelectSeq(pdf[pageNum - 1], HasVisibleText)
        IN  /\ Len(textItems) = Len(visible)
            /\ \A k \in 1..Len(visible) :
                   /\ IsTrimOf(textItems[k].text, visible[k].str)
                   /\ IsRoundedHalves(textItems[k].x, visible[k].tx)
                   /\ IsRoundedHalves(textItems[k].y, visible[k].ty)
            /\ \A r \in 1..Len(rows) : \A k \in 1..Len(rows[r]) :
                   \E c \in 1..Len(rows[r][k].text) : rows[r][k].text[c] # " "
            /\ pdf[pageNum - 1] = <<>> => textItems = <<>>

\* a page of three items, the third only white space, the first two padded,
\* between pixels and bottom line first, gave two fragments in source order
ExtractorKeepsVisibleItemsWitness ==
    /\ pageNum > 1
    /\ Len(pdf[pageNum - 1]) = 3
    /\ textItems = <<Fragment(<<"b", " ", "c">>, 1, 81), Fragment(<<"a">>, 11, 100)>>
    /\ Len(rows) = 2

\* the words of a text: its longest runs of characters that are not spaces
RECURSIVE WordsLoop(_, _)
WordsLoop(t, word) ==
    IF t = <<>> THEN (IF word = <<>> THEN <<>> ELSE <<word>>)
    ELSE IF Head(t) = " "
         THEN (IF word = <<>> THEN <<>> ELSE <<word>>) \o WordsLoop(Tail(t), <<>>)
         ELSE WordsLoop(Tail(t), Append(word, Head(t)))

Words(t) == WordsLoop(t, <<>>)

\* the words of a list of texts
RECURSIVE WordsOfTexts(_)
WordsOfTexts(texts) ==
    IF texts = <<>> THEN <<>> ELSE Words(Head(texts)) \o WordsOfTexts(Tail(texts))

\* C29: for every table of the page processed last and every row of it, the
\* texts in the cells of the reconstructed row are the texts of the
\* fragments of the row, each as often as it is in the row: no fragment is
\* dropped and none is duplicated
CellsKeepFragments ==
    pageNum > 1 =>
        \A k \in 1..Len(tables) :
            LET grid == reconstructCells(tables[k].rows, tables[k].columns)
            IN  \A r \in 1..Len(tables[k].rows) :
                    BagOfSeq(WordsOfTexts(grid[r])) =
                        BagOfSeq(WordsOfTexts(TextsOf(tables[k].rows[r])))

\* C30: the sheet names of the sheets collected for one document are
\* pairwise distinct, whatever the options and the pages are
SheetNamesDistinct ==
    \A i, j \in 1..Len(allTables) :
        i # j => allTables[i].sheetName # allTables[j].sheetName

====
